---- MODULE Spec2Model ----
(***************************************************************************)
(* Entry/frame/tuplet traversal of the musx object model:                  *)
(* details::GFrameHold::iterateEntries (single layer and whole cell),      *)
(* TupletState, Entry::getNext, over a loaded, read-only document.         *)
(***************************************************************************)
EXTENDS Integers, Sequences, FiniteSets, TLC

(***************************************************************************)
(* Bounds of the model                                                     *)
(***************************************************************************)
\* entries in the document's entry pool carry the entry numbers 1..NumEntries
NumEntries == 3
\* frame ids 1..NumFrames exist in the others pool
NumFrames == 2
\* layer indices offered to the single-layer call: 0..MaxLayerArg
MaxLayerArg == 5
\* frame holders are drawn from the staves 1..NumStaves and the measures
\* 1..NumMeasures
NumStaves == 2
NumMeasures == 2
\* the base system lists up to NumListed staves, and a linker stores up to
\* MaxAdded resolvers in its life
NumListed == 3
MaxAdded == 2
\* the XML of the clef options holds up to NumClefDefs clefDef elements
NumClefDefs == 2
\* buffers of up to MaxBuffer bytes are re-coded up to MaxCrypts times
MaxBuffer == 3
MaxCrypts == 3
\* every duration up to MaxSmallEdu is tried, and every clef index and clef
\* list id up to MaxClef
MaxSmallEdu == 70
MaxClef == 2
\* callbacks allowed in one call before the model stops following it
MaxEmit == NumEntries + 2

(***************************************************************************)
(* Program constants                                                       *)
(***************************************************************************)
\* GFrameHold::frames has MAX_LAYERS slots (layer indices 0..3)
MAX_LAYERS == 4
\* Entry::NoteType::Whole in Edu (1024 Edu per quarter note)
Whole == 4096

Entries == 1..NumEntries
\* an entry number that no entry of the pool carries
NoSuchEntry == NumEntries + 1
FrameIds == 1..NumFrames
\* a frame id without incarnations in the others pool
NoSuchFrame == NumFrames + 1

(***************************************************************************)
(* util::Fraction: exact fractions <<numerator, denominator>>, reduced,    *)
(* denominator positive                                                    *)
(***************************************************************************)
Abs(x) == IF x < 0 THEN -x ELSE x

RECURSIVE GCD(_, _)
GCD(a, b) == IF b = 0 THEN a ELSE GCD(b, a % b)

\* what stands for a fraction when its construction threw invalid_argument
\* (zero denominator, division by a zero fraction)
InvalidArgument == <<0, 0>>

Fraction(n, d) ==
    IF d = 0 THEN InvalidArgument
    ELSE LET g == GCD(Abs(n), Abs(d))
             s == IF d < 0 THEN -1 ELSE 1
         IN  <<(s * n) \div g, (s * d) \div g>>

FracInt(n) == <<n, 1>>
FracAdd(a, b) == Fraction(a[1] * b[2] + b[1] * a[2], a[2] * b[2])
FracSub(a, b) == Fraction(a[1] * b[2] - b[1] * a[2], a[2] * b[2])
FracMul(a, b) == Fraction(a[1] * b[1], a[2] * b[2])
FracDiv(a, b) == Fraction(a[1] * b[2], a[2] * b[1])
FracLeqZero(a) == a[1] <= 0

(***************************************************************************)
(* The loaded document                                                     *)
(***************************************************************************)
VARIABLES
    strict,         \* MUSX_INTEGRITY_ERROR throws (TRUE) or only reports
    m_next,         \* Entry::m_next of every entry of the pool
    duration,       \* Entry::duration (Edu) of every entry
    tupletDefs,     \* details pool: the TupletDefs keyed to every entry
    frameIncis,     \* others pool: the incarnations of every frame id
    frames          \* GFrameHold::frames, layer index -> frame id or 0

(***************************************************************************)
(* One call of iterateEntries                                              *)
(***************************************************************************)
VARIABLES
    pc,                     \* "idle", "loop" (before a loop iteration), "done"
    wholeCell,              \* the call is iterateEntries(iterator)
    layerIndex,             \* layer of the single-layer traversal running
    frame,                  \* the incarnation that carries the start entry
    nextEntry,              \* loop variable: entry number
    activeTuplets,          \* std::vector<TupletState>
    actualElapsedDuration,
    result,                 \* "none", "true", "false", or the exception
    integrityErrors,        \* what MUSX_INTEGRITY_ERROR was given, in order
    emitted                 \* the invocations of the iterator, in order

(***************************************************************************)
(* The frame holder's keys and clefs, the back links of the entries, and   *)
(* one call of a member function of an entity                              *)
(***************************************************************************)
VARIABLES
    inst,           \* GFrameHold cmper1: the staff
    meas,           \* GFrameHold cmper2: the measure
    clefId,         \* std::optional<ClefIndex>: <<>> or <<clef index>>
    clefListId,     \* GFrameHold::clefListId
    m_prev,         \* Entry::m_prev of every entry of the pool
    called,         \* the member function called last and its entry
    returned        \* what it returned or threw, and what it reported

(***************************************************************************)
(* A call made before the running one, and the components outside the      *)
(* traversal: the score file encoder, the element linker, the staff lists  *)
(* of the score, and the clef options                                      *)
(***************************************************************************)
VARIABLES
    previous,               \* what an earlier whole-cell call emitted
    buffer,                 \* ScoreFileEncoder: the buffer re-coded in place
    original,               \* the bytes the buffer held at first
    crypts,                 \* calls of cryptBuffer made on the buffer
    resolvers,              \* ElementLinker::resolvers
    registeredResolvers,    \* ElementLinker::registeredResolvers
    added,                  \* resolvers stored so far (numbers them)
    baseList,               \* the InstrumentUsed array of the base system
    groups,                 \* the StaffGroups of the score
    clefDefs,               \* ClefOptions::clefDefs
    clefXml                 \* the <clefDef> elements of the options element

doc == <<strict, m_next, duration, tupletDefs, frameIncis, frames,
         inst, meas, clefId, clefListId, m_prev>>
components == <<buffer, original, crypts, resolvers, registeredResolvers, added,
                baseList, groups, clefDefs, clefXml>>
iteration == <<pc, wholeCell, layerIndex, frame, nextEntry, activeTuplets,
               actualElapsedDuration, result, integrityErrors, emitted>>
memberCall == <<called, returned>>
vars == <<strict, m_next, duration, tupletDefs, frameIncis, frames,
          pc, wholeCell, layerIndex, frame, nextEntry, activeTuplets,
          actualElapsedDuration, result, integrityErrors, emitted,
          inst, meas, clefId, clefListId, m_prev, called, returned,
          previous, buffer, original, crypts, resolvers, registeredResolvers,
          added, baseList, groups, clefDefs, clefXml>>


(***************************************************************************)
(* Entities of the document                                                *)
(***************************************************************************)
\* others::Frame: one incarnation of a frame id
Frame(s, e, t) == [startEntry |-> s, endEntry |-> e, startTime |-> t]

\* details::TupletDef: displayNumber notes of displayDuration in the time of
\* referenceNumber notes of referenceDuration
TupletDef(dn, dd, rn, rd) ==
    [displayNumber |-> dn, displayDuration |-> dd,
     referenceNumber |-> rn, referenceDuration |-> rd]

\* TupletDef::calcReferenceDuration
calcReferenceDuration(t) == Fraction(t.referenceNumber * t.referenceDuration, Whole)
\* TupletDef::calcDisplayDuration
calcDisplayDuration(t) == Fraction(t.displayNumber * t.displayDuration, Whole)
\* as calcRatio, but display / reference
calcRatioOfDisplay(t) ==
    Fraction(t.displayNumber * t.displayDuration, t.referenceNumber * t.referenceDuration)

\* TupletDef::calcRatio
calcRatio(t) ==
    Fraction(t.referenceNumber * t.referenceDuration, t.displayNumber * t.displayDuration)

\* TupletState::TupletState
TupletState(t) ==
    [remainingSymbolicDuration |-> Fraction(t.displayNumber * t.displayDuration, Whole),
     ratio |-> Fraction(t.referenceNumber * t.referenceDuration,
                        t.displayNumber * t.displayDuration),
     tuplet |-> t]

\* Entry::calcFraction: the nominal duration as a fraction of a whole note
calcFraction(e) == Fraction(duration[e], Whole)

\* GFrameHold::getStaff
getStaff == inst
\* GFrameHold::getMeasure
getMeasure == meas

\* entries pool: get<Entry>(entnum) resolves
EntryExists(entnum) == entnum \in Entries

\* others pool: getArray<others::Frame>(partId, cmper)
getFrameArray(cmper) == IF cmper \in FrameIds THEN frameIncis[cmper] ELSE <<>>

\* details pool: getArray<details::TupletDef>(SCORE_PARTID, entnum)
getTupletArray(entnum) == tupletDefs[entnum]

(***************************************************************************)
(* Documents the model loads                                               *)
(***************************************************************************)
Quarter == Whole \div 4
Half == Whole \div 2
Eighth == Whole \div 8

\* two quarters in the time of three eighths (ratio 3/4)
T1 == TupletDef(2, Quarter, 3, Eighth)
\* three eighths in the time of two eighths (ratio 2/3)
T2 == TupletDef(3, Eighth, 2, Eighth)

\* the chain follows 1, 2, .. up to entry k; entry k has no next entry, names
\* an entry the pool lacks, or links back to entry 1; the entries after k are
\* not linked
Chains ==
    { [e \in Entries |-> IF e < k THEN e + 1 ELSE IF e = k THEN n ELSE 0] :
        k \in Entries, n \in {0, NumEntries + 1, 1} }

DurationPatterns ==
    { [e \in Entries |-> Quarter],
      [e \in Entries |-> IF e % 2 = 1 THEN Half ELSE Quarter] }

TupletPatterns ==
    { [e \in Entries |-> IF e = 1 THEN a ELSE IF e = 2 THEN b ELSE <<>>] :
        a \in {<<>>, <<T1>>, <<T1, T2>>}, b \in {<<>>, <<T2>>} }

\* the incarnations of frame id 1
IncisChoices ==
    UNION { { <<Frame(1, e, 0)>>,
              <<Frame(1, e, 0), Frame(0, 0, Quarter)>>,
              <<Frame(0, 0, Eighth), Frame(1, e, Quarter)>>,
              <<Frame(NoSuchEntry, e, 0)>> } : e \in 2..NoSuchEntry }
    \cup { <<Frame(0, 0, Quarter)>> }

\* the frame ids above 1 start at the entry of their number and end at the
\* last entry
FramePools ==
    { [f \in FrameIds |-> IF f = 1 THEN i ELSE <<Frame(f, NumEntries, 0)>>] :
        i \in IncisChoices }

Holder(a, b, c, d) == [l \in 0..(MAX_LAYERS - 1) |->
    IF l = 0 THEN a ELSE IF l = 1 THEN b ELSE IF l = 2 THEN c ELSE d]

Holders ==
    { Holder(1, 0, 0, 0), Holder(1, NumFrames, 0, 1),
      Holder(0, NumFrames, 0, 1), Holder(NoSuchFrame, 0, 1, 0) }


\* every entry but the first links back to the entry before it
BackLinks == [e \in Entries |-> e - 1]

\* no member function of an entity has been called
NoCall == [op |-> "none", entry |-> 0]
NoReturn == [thrown |-> "none", value |-> 0, reports |-> <<>>]

\* no earlier call is remembered
NoPrevious == previous = [made |-> FALSE, emitted |-> <<>>]

\* the components outside the traversal before anything was done with them
EncoderAtRest == buffer = <<>> /\ original = <<>> /\ crypts = 0
LinkerAtRest == resolvers = <<>> /\ registeredResolvers = {} /\ added = 0
StavesAtRest == baseList = <<>> /\ groups = <<>>
ClefOptionsAtRest == clefDefs = <<>> /\ clefXml = <<>>
ComponentsAtRest ==
    EncoderAtRest /\ LinkerAtRest /\ StavesAtRest /\ ClefOptionsAtRest

\* the holder of staff 1, measure 2 with clef 0 and no clef list
OneCell ==
    /\ inst = 1
    /\ meas = 2
    /\ clefId = <<0>>
    /\ clefListId = 0

Init ==
    /\ strict \in BOOLEAN
    /\ m_next \in Chains
    /\ duration \in DurationPatterns
    /\ tupletDefs \in TupletPatterns
    /\ frameIncis \in FramePools
    /\ frames \in Holders
    /\ OneCell
    /\ m_prev = BackLinks
    /\ called = NoCall
    /\ returned = NoReturn
    /\ NoPrevious
    /\ ComponentsAtRest
    /\ pc = "idle"
    /\ wholeCell = FALSE
    /\ layerIndex = 0
    /\ frame = Frame(0, 0, 0)
    /\ nextEntry = 0
    /\ activeTuplets = <<>>
    /\ actualElapsedDuration = FracInt(0)
    /\ result = "none"
    /\ integrityErrors = <<>>
    /\ emitted = <<>>

(***************************************************************************)
(* MUSX_INTEGRITY_ERROR and Entry::getNext                                 *)
(***************************************************************************)
\* MUSX_INTEGRITY_ERROR(msg): the violation is raised; in strict mode it is
\* thrown as integrity_error, otherwise logged and execution continues
Throws == strict

\* as getNext, but a link that does not resolve is not reported
getNextSilent(e) ==
    IF EntryExists(m_next[e]) THEN [entry |-> m_next[e], error |-> FALSE]
    ELSE [entry |-> 0, error |-> FALSE]

\* Entry::getNext: [entry: the entry number or 0 for nullptr,
\*                  error: MUSX_INTEGRITY_ERROR was raised]
getNext(e) ==
    IF m_next[e] = 0 THEN [entry |-> 0, error |-> FALSE]
    ELSE IF EntryExists(m_next[e]) THEN [entry |-> m_next[e], error |-> FALSE]
    ELSE [entry |-> 0, error |-> TRUE]

\* Entry::getPrevious, as getNext
getPrevious(e) ==
    IF m_prev[e] = 0 THEN [entry |-> 0, error |-> FALSE]
    ELSE IF EntryExists(m_prev[e]) THEN [entry |-> m_prev[e], error |-> FALSE]
    ELSE [entry |-> 0, error |-> TRUE]

(***************************************************************************)
(* details::GFrameHold::iterateEntries(layerIndex, iterator)               *)
(***************************************************************************)
\* the lambda of lines 764-771: the first incarnation with a start entry,
\* as an index into the array, 0 for nullptr
RECURSIVE FindFrame(_, _)
FindFrame(incis, i) ==
    IF i > Len(incis) THEN 0
    ELSE IF incis[i].startEntry # 0 THEN i
    ELSE FindFrame(incis, i + 1)

\* as SumStartTimes, but only the incarnation with the start entry counts
SumStartTimesOfMarker(incis, i) ==
    Fraction(incis[FindFrame(incis, 1)].startTime, Whole)

\* lines 779-782: the start times of all incarnations, from the i-th on
RECURSIVE SumStartTimes(_, _)
SumStartTimes(incis, i) ==
    IF i > Len(incis) THEN FracInt(0)
    ELSE FracAdd(Fraction(incis[i].startTime, Whole), SumStartTimes(incis, i + 1))

\* lines 786-788: a TupletState is emplaced for every tuplet found
\* as EmplaceTuplets, but the tuplets of one entry are pushed last to first
RECURSIVE EmplaceTupletsReversed(_, _, _)
EmplaceTupletsReversed(active, tuplets, i) ==
    IF i > Len(tuplets) THEN active
    ELSE Append(EmplaceTupletsReversed(active, tuplets, i + 1), TupletState(tuplets[i]))

RECURSIVE EmplaceTuplets(_, _, _)
EmplaceTuplets(active, tuplets, i) ==
    IF i > Len(tuplets) THEN active
    ELSE EmplaceTuplets(Append(active, TupletState(tuplets[i])), tuplets, i + 1)

\* as CumulativeRatio, but assigning the ratio instead of multiplying by it
CumulativeRatioAssigned(active, i) ==
    IF i > Len(active) THEN FracInt(1) ELSE active[Len(active)].ratio

\* lines 791-794
RECURSIVE CumulativeRatio(_, _)
CumulativeRatio(active, i) ==
    IF i > Len(active) THEN FracInt(1)
    ELSE FracMul(active[i].ratio, CumulativeRatio(active, i + 1))

\* as AccountFor, but the actual duration is not divided by the ratio
AccountForActual(active, actualDuration) ==
    [i \in 1..Len(active) |->
        [active[i] EXCEPT !.remainingSymbolicDuration = FracSub(@, actualDuration)]]

\* lines 808-810
AccountFor(active, actualDuration) ==
    [i \in 1..Len(active) |->
        [active[i] EXCEPT !.remainingSymbolicDuration =
            FracSub(@, FracDiv(actualDuration, active[i].ratio))]]

\* as Elapse, but assigning the duration instead of adding it
ElapseAssigned(elapsed, actualDuration) == actualDuration

\* line 807
Elapse(elapsed, actualDuration) == FracAdd(elapsed, actualDuration)

\* as Expired, but a tuplet that is used up exactly stays
ExpiredBelowZero(t) == t.remainingSymbolicDuration[1] < 0

\* lines 811-815
Expired(t) == FracLeqZero(t.remainingSymbolicDuration)
RemoveExpired(active) == SelectSeq(active, LAMBDA t : ~Expired(t))

\* as IteratorHalts, but the iterator's answer is ignored
IteratorNeverHalts(continue) == FALSE

\* line 799: the iterator's answer ends the call
IteratorHalts(continue) == ~continue

\* as AtEndEntry, but the end entry is not looked for
AtEndEntryNever(e, fr) == FALSE

\* line 803
AtEndEntry(e, fr) == e = fr.endEntry

\* The outcome of the part of a single-layer call that runs up to its loop:
\* kind "loop" (the loop is entered), "return" (the call returned true) or
\* "throw" (the call failed); errs are the violations raised so far
Outcome(kind, res, errs, l, fr, entry, elapsed) ==
    [kind |-> kind, result |-> res, errs |-> errs, layerIndex |-> l,
     frame |-> fr, nextEntry |-> entry, elapsed |-> elapsed]
\* as Returned, but returning false
ReturnedFalse(l, errs) ==
    Outcome("return", "false", errs, l, Frame(0, 0, 0), 0, FracInt(0))

Returned(l, errs) == Outcome("return", "true", errs, l, Frame(0, 0, 0), 0, FracInt(0))
Thrown(l, what, errs) == Outcome("throw", what, errs, l, Frame(0, 0, 0), 0, FracInt(0))
IntegrityError(l, msg, errs) ==
    IF Throws THEN Thrown(l, "integrity_error", Append(errs, msg))
    ELSE Returned(l, Append(errs, msg))

\* as EmptyLayer, but a slot without a frame id is looked up all the same
EmptyLayerNever(l) == FALSE

\* line 761: nothing here
EmptyLayer(l) == frames[l] = 0

\* as NoFrame, but the call returns without a report
NoFrameSilent(l, errs) == Returned(l, errs)

\* lines 817-820: no incarnation of the frame id has a start entry
NoFrame(l, errs) == IntegrityError(l, "non-existent frame", errs)

\* as NotIterable, but the call returns without a report
NotIterableSilent(l, errs) == Returned(l, errs)

\* lines 773-777: the start entry is not in the entry pool
NotIterable(l, errs) == IntegrityError(l, "not iterable", errs)

\* as EnterLayer, but the range check lets layer index MAX_LAYERS pass, and
\* the call then finds nothing to do
EnterLayerOffByOne(l, errs) ==
    IF l > MAX_LAYERS THEN Thrown(l, "invalid_argument", errs)
    ELSE IF l = MAX_LAYERS \/ EmptyLayer(l) THEN Returned(l, errs)
    ELSE LET incis == getFrameArray(frames[l])
             f == FindFrame(incis, 1)
         IN  IF f = 0 THEN NoFrame(l, errs)
             ELSE IF ~EntryExists(incis[f].startEntry) THEN NotIterable(l, errs)
             ELSE Outcome("loop", "none", errs, l, incis[f], incis[f].startEntry,
                          SumStartTimes(incis, 1))

\* lines 756-782
EnterLayer(l, errs) ==
    IF l >= MAX_LAYERS THEN Thrown(l, "invalid_argument", errs)
    ELSE IF EmptyLayer(l) THEN Returned(l, errs)
    ELSE LET incis == getFrameArray(frames[l])
             f == FindFrame(incis, 1)
         IN  IF f = 0 THEN NoFrame(l, errs)
             ELSE IF ~EntryExists(incis[f].startEntry) THEN NotIterable(l, errs)
             ELSE Outcome("loop", "none", errs, l, incis[f], incis[f].startEntry,
                          SumStartTimes(incis, 1))

(***************************************************************************)
(* details::GFrameHold::iterateEntries(iterator)                           *)
(***************************************************************************)
\* as EnterLayersFrom, but returning what the first layer tried returns
EnterLayersFromOnce(l, errs) ==
    IF l >= MAX_LAYERS THEN Returned(l, errs) ELSE EnterLayer(l, errs)

\* lines 824-832, from layer l on, up to the first layer that enters its loop
RECURSIVE EnterLayersFrom(_, _)
EnterLayersFrom(l, errs) ==
    IF l >= MAX_LAYERS THEN Returned(l, errs)
    ELSE LET o == EnterLayer(l, errs)
         IN  IF o.kind = "return" THEN EnterLayersFrom(l + 1, o.errs) ELSE o

\* the single-layer traversal of layer l returned true
LayerReturned(l, errs) ==
    IF wholeCell' THEN EnterLayersFrom(l + 1, errs) ELSE Returned(l, errs)

\* as Continue, but the active tuplets of the traversal that ended stay
ContinueWithTuplets(o) ==
    /\ pc' = IF o.kind = "loop" THEN "loop" ELSE "done"
    /\ result' = o.result
    /\ integrityErrors' = o.errs
    /\ layerIndex' = o.layerIndex
    /\ frame' = o.frame
    /\ nextEntry' = o.nextEntry
    /\ actualElapsedDuration' = o.elapsed
    /\ activeTuplets' = activeTuplets

\* the call goes on as the outcome says
Continue(o) ==
    /\ pc' = IF o.kind = "loop" THEN "loop" ELSE "done"
    /\ result' = o.result
    /\ integrityErrors' = o.errs
    /\ layerIndex' = o.layerIndex
    /\ frame' = o.frame
    /\ nextEntry' = o.nextEntry
    /\ actualElapsedDuration' = o.elapsed
    /\ activeTuplets' = <<>>

(***************************************************************************)
(* Actions                                                                 *)
(***************************************************************************)
\* the caller calls iterateEntries(l, iterator)
CallSingleLayer(l) ==
    /\ pc = "idle"
    /\ wholeCell' = FALSE
    /\ Continue(EnterLayer(l, integrityErrors))
    /\ UNCHANGED <<doc, memberCall, previous, components, emitted>>

\* the caller calls iterateEntries(iterator)
CallWholeCell ==
    /\ pc = "idle"
    /\ wholeCell' = TRUE
    /\ Continue(EnterLayersFrom(0, integrityErrors))
    /\ UNCHANGED <<doc, memberCall, previous, components, emitted>>

\* std::make_shared<EntryInfo>(getStaff(), getMeasure(), layerIndex, nextEntry)
\* with the durations of lines 796-797, and what the iterator was handed and
\* answered
\* as EntryInfo, but the staff and the measure change places
EntryInfoSwapped(l, e, elapsed, actual, active, continue) ==
    [staff |-> getMeasure, measure |-> getStaff,
     layerIndex |-> l, entry |-> e, elapsedDuration |-> elapsed,
     actualDuration |-> actual, activeTuplets |-> active, continue |-> continue]

EntryInfo(l, e, elapsed, actual, active, continue) ==
    [staff |-> getStaff, measure |-> getMeasure,
     layerIndex |-> l, entry |-> e, elapsedDuration |-> elapsed,
     actualDuration |-> actual, activeTuplets |-> active, continue |-> continue]

\* one iteration of the loop of lines 783-816; the iterator answers `continue`
LoopBody(continue) ==
    /\ pc = "loop"
    /\ Len(emitted) < MaxEmit
    /\ LET active == EmplaceTuplets(activeTuplets, getTupletArray(nextEntry), 1)
           cumulativeRatio == CumulativeRatio(active, 1)
           actualDuration == FracMul(calcFraction(nextEntry), cumulativeRatio)
           next == getNext(nextEntry)
       IN  /\ emitted' = Append(emitted,
                EntryInfo(layerIndex, nextEntry, actualElapsedDuration,
                          actualDuration, active, continue))
           /\ wholeCell' = wholeCell
           /\ IF IteratorHalts(continue)
              THEN /\ pc' = "done"
                   /\ result' = "false"
                   /\ UNCHANGED <<layerIndex, frame, nextEntry, activeTuplets,
                                  actualElapsedDuration, integrityErrors>>
              ELSE IF AtEndEntry(nextEntry, frame)
              THEN Continue(LayerReturned(layerIndex, integrityErrors))
              ELSE IF next.entry # 0
              THEN /\ pc' = "loop"
                   /\ nextEntry' = next.entry
                   /\ actualElapsedDuration' =
                          Elapse(actualElapsedDuration, actualDuration)
                   /\ activeTuplets' =
                          RemoveExpired(AccountFor(active, actualDuration))
                   /\ UNCHANGED <<layerIndex, frame, result, integrityErrors>>
              ELSE IF next.error /\ Throws
              THEN Continue(Thrown(layerIndex, "integrity_error",
                                   Append(integrityErrors, "no next entry")))
              ELSE Continue(LayerReturned(layerIndex,
                       IF next.error THEN Append(integrityErrors, "no next entry")
                       ELSE integrityErrors))
    /\ UNCHANGED <<doc, memberCall, previous, components>>

Next ==
    \/ \E l \in 0..MaxLayerArg : CallSingleLayer(l)
    \/ CallWholeCell
    \/ \E continue \in BOOLEAN : LoopBody(continue)

Spec == Init /\ [][Next]_vars

(***************************************************************************)
(* The same calls on the holders of several cells                          *)
(***************************************************************************)
\* the holder is the one of a staff 1..NumStaves and a measure 1..NumMeasures
InitCell ==
    /\ strict \in BOOLEAN
    /\ m_next \in Chains
    /\ duration = [e \in Entries |-> Quarter]
    /\ tupletDefs = [e \in Entries |-> <<>>]
    /\ frameIncis \in FramePools
    /\ frames \in Holders
    /\ inst \in 1..NumStaves
    /\ meas \in 1..NumMeasures
    /\ clefId = <<0>>
    /\ clefListId = 0
    /\ m_prev = BackLinks
    /\ called = NoCall
    /\ returned = NoReturn
    /\ NoPrevious
    /\ ComponentsAtRest
    /\ pc = "idle"
    /\ wholeCell = FALSE
    /\ layerIndex = 0
    /\ frame = Frame(0, 0, 0)
    /\ nextEntry = 0
    /\ activeTuplets = <<>>
    /\ actualElapsedDuration = FracInt(0)
    /\ result = "none"
    /\ integrityErrors = <<>>
    /\ emitted = <<>>

SpecCell == InitCell /\ [][Next]_vars

(***************************************************************************)
(* A whole-cell call followed by single-layer calls on the same holder     *)
(***************************************************************************)
\* after a whole-cell call that returned true with every callback answered
\* true, the caller keeps what was emitted and is ready for another call
CallAgain ==
    /\ pc = "done"
    /\ wholeCell
    /\ result = "true"
    /\ ~previous.made
    /\ \A i \in 1..Len(emitted) : emitted[i].continue
    /\ previous' = [made |-> TRUE, emitted |-> emitted]
    /\ pc' = "idle"
    /\ wholeCell' = FALSE
    /\ layerIndex' = 0
    /\ frame' = Frame(0, 0, 0)
    /\ nextEntry' = 0
    /\ activeTuplets' = <<>>
    /\ actualElapsedDuration' = FracInt(0)
    /\ result' = "none"
    /\ integrityErrors' = <<>>
    /\ emitted' = <<>>
    /\ UNCHANGED <<doc, memberCall, components>>

InitTwice ==
    /\ strict \in BOOLEAN
    /\ m_next \in Chains
    /\ duration \in DurationPatterns
    /\ tupletDefs \in TupletPatterns
    /\ frameIncis \in FramePools
    /\ frames \in Holders
    /\ OneCell
    /\ m_prev = BackLinks
    /\ called = NoCall
    /\ returned = NoReturn
    /\ NoPrevious
    /\ ComponentsAtRest
    /\ pc = "idle"
    /\ wholeCell = FALSE
    /\ layerIndex = 0
    /\ frame = Frame(0, 0, 0)
    /\ nextEntry = 0
    /\ activeTuplets = <<>>
    /\ actualElapsedDuration = FracInt(0)
    /\ result = "none"
    /\ integrityErrors = <<>>
    /\ emitted = <<>>

NextTwice ==
    \/ \E l \in 0..MaxLayerArg : CallSingleLayer(l)
    \/ CallWholeCell
    \/ \E continue \in BOOLEAN : LoopBody(continue)
    \/ CallAgain

SpecTwice == InitTwice /\ [][NextTwice]_vars

(***************************************************************************)
(* The same calls on documents with nested tuplets and tuplets of one, two *)
(* and three notes                                                         *)
(***************************************************************************)
Sixteenth == Whole \div 16

\* three quarters in the time of two quarters (ratio 2/3)
Outer == TupletDef(3, Quarter, 2, Quarter)
\* two eighths in the time of three sixteenths (ratio 3/4)
Inner == TupletDef(2, Eighth, 3, Sixteenth)
\* one quarter in the time of one eighth (ratio 1/2)
Single == TupletDef(1, Quarter, 1, Eighth)

NestedDurationPatterns ==
    { [e \in Entries |-> Eighth],
      [e \in Entries |-> Quarter],
      [e \in Entries |-> IF e <= 2 THEN Eighth ELSE Quarter] }

NestedTupletPatterns ==
    { [e \in Entries |-> IF e = 1 THEN a ELSE IF e = 2 THEN b ELSE <<>>] :
        a \in {<<>>, <<Outer>>, <<Outer, Inner>>, <<Single>>, <<T1>>, <<T2>>},
        b \in {<<>>, <<Inner>>} }

\* frame 1 starts at entry 1 and ends at a later entry or at one the pool lacks
PlainFramePools ==
    { [f \in FrameIds |-> IF f = 1 THEN <<Frame(1, e, 0)>>
                                    ELSE <<Frame(f, NumEntries, 0)>>] :
        e \in 2..NoSuchEntry }

InitTuplets ==
    /\ strict \in BOOLEAN
    /\ m_next \in Chains
    /\ duration \in NestedDurationPatterns
    /\ tupletDefs \in NestedTupletPatterns
    /\ frameIncis \in PlainFramePools
    /\ frames \in {Holder(1, 0, 0, 0), Holder(1, NumFrames, 0, 1)}
    /\ OneCell
    /\ m_prev = BackLinks
    /\ called = NoCall
    /\ returned = NoReturn
    /\ NoPrevious
    /\ ComponentsAtRest
    /\ pc = "idle"
    /\ wholeCell = FALSE
    /\ layerIndex = 0
    /\ frame = Frame(0, 0, 0)
    /\ nextEntry = 0
    /\ activeTuplets = <<>>
    /\ actualElapsedDuration = FracInt(0)
    /\ result = "none"
    /\ integrityErrors = <<>>
    /\ emitted = <<>>

SpecTuplets == InitTuplets /\ [][Next]_vars

(***************************************************************************)
(* A plain document with no call running, for the components that do not   *)
(* read it                                                                 *)
(***************************************************************************)
PlainScore ==
    /\ m_next = [e \in Entries |-> IF e < NumEntries THEN e + 1 ELSE 0]
    /\ m_prev = BackLinks
    /\ duration = [e \in Entries |-> Quarter]
    /\ tupletDefs = [e \in Entries |-> <<>>]
    /\ frameIncis = [f \in FrameIds |-> <<Frame(f, NumEntries, 0)>>]
    /\ frames = Holder(1, 0, 0, 0)
    /\ OneCell

NothingCalled ==
    /\ called = NoCall
    /\ returned = NoReturn
    /\ NoPrevious
    /\ pc = "idle"
    /\ wholeCell = FALSE
    /\ layerIndex = 0
    /\ frame = Frame(0, 0, 0)
    /\ nextEntry = 0
    /\ activeTuplets = <<>>
    /\ actualElapsedDuration = FracInt(0)
    /\ result = "none"
    /\ integrityErrors = <<>>
    /\ emitted = <<>>

(***************************************************************************)
(* ScoreFileEncoder::cryptBuffer; the uint32_t state is <<upper 16 bits,   *)
(* lower 16 bits>>                                                         *)
(***************************************************************************)
\* INITIAL_STATE = 0x28006D45
InitialStateHigh == 10240
InitialStateLow == 27973
\* RESET_LIMIT = 0x20000
RESET_LIMIT == 131072
\* the multiplier 0x41c64e6d and the increment 0x3039
MultiplierHigh == 16838
MultiplierLow == 20077
Increment == 12345

INITIAL_STATE == <<InitialStateHigh, InitialStateLow>>

\* state * 0x41c64e6d + 0x3039, modulo 2^32
NextState(state) ==
    LET low == state[2] * MultiplierLow + Increment
        high == (low \div 65536) + ((state[1] * MultiplierLow) % 65536)
                                 + ((state[2] * MultiplierHigh) % 65536)
    IN  <<high % 65536, low % 65536>>

\* uint16_t upper = state >> 16; uint8_t c = upper + upper / 255
KeyByte(state) == (state[1] + state[1] \div 255) % 256

\* as XorByte, but the key byte is added
AddByte(a, b) == (a + b) % 256

\* a ^ b on bytes
XorByte(a, b) ==
    LET bit(x, k) == (x \div 2^k) % 2
        xor(k) == ((bit(a, k) + bit(b, k)) % 2) * 2^k
    IN  xor(0) + xor(1) + xor(2) + xor(3) + xor(4) + xor(5) + xor(6) + xor(7)

\* the loop of lines 67-75 from index i on (indices from 0), in state `state`
RECURSIVE CryptLoop(_, _, _)
CryptLoop(buf, i, state) ==
    IF i >= Len(buf) THEN buf
    ELSE LET reset == IF i % RESET_LIMIT = 0 THEN INITIAL_STATE ELSE state
             next == NextState(reset)
         IN  CryptLoop([buf EXCEPT ![i + 1] = XorByte(@, KeyByte(next))], i + 1, next)

\* ScoreFileEncoder::cryptBuffer(buffer, buffSize)
cryptBuffer(buf) == CryptLoop(buf, 0, INITIAL_STATE)

\* the caller re-codes the buffer in place
CallCryptBuffer ==
    /\ crypts < MaxCrypts
    /\ buffer' = cryptBuffer(buffer)
    /\ crypts' = crypts + 1
    /\ UNCHANGED <<doc, iteration, memberCall, previous, original, resolvers,
                   registeredResolvers, added, baseList, groups, clefDefs, clefXml>>

\* bytes with every bit pattern at the ends of the range and in between
ByteSamples == {0, 1, 69, 127, 128, 170, 255}

Buffers == UNION { [1..n -> ByteSamples] : n \in 0..MaxBuffer }

InitEncoder ==
    /\ strict = FALSE
    /\ PlainScore
    /\ NothingCalled
    /\ original \in Buffers
    /\ buffer = original
    /\ crypts = 0
    /\ LinkerAtRest
    /\ StavesAtRest
    /\ ClefOptionsAtRest

NextEncoder == CallCryptBuffer

SpecEncoder == InitEncoder /\ [][NextEncoder]_vars

(***************************************************************************)
(* ElementLinker, the StaffGroup resolver and InstrumentUsed               *)
(***************************************************************************)
\* a staff id that the base list never holds
NoSuchStaff == NumListed + 1

\* details::StaffGroup: startInst, endInst and the set of staves
StaffGroup(s, e) == [startInst |-> s, endInst |-> e, staves |-> {}]

\* InstrumentUsed::getIndexForStaff: the index (from 0) of the first item of
\* the array with the staff id, as <<index>>, or <<>> for std::nullopt
getIndexForStaff(iuArray, staffId) ==
    IF \E x \in 1..Len(iuArray) : iuArray[x] = staffId
    THEN <<(CHOOSE x \in 1..Len(iuArray) :
                /\ iuArray[x] = staffId
                /\ \A y \in 1..(x - 1) : iuArray[y] # staffId) - 1>>
    ELSE <<>>

\* as InsertStaves, but the end index is left out
InsertStavesBelow(instance, list, startIndex, endIndex) ==
    [instance EXCEPT !.staves =
        @ \cup { list[x + 1] : x \in { y \in startIndex..(endIndex - 1) : y < Len(list) } }]

\* the loop of lines 62-64
InsertStaves(instance, list, startIndex, endIndex) ==
    [instance EXCEPT !.staves =
        @ \cup { list[x + 1] : x \in { y \in startIndex..endIndex : y < Len(list) } }]

\* the resolver of lines 52-66 from group i on: the groups as it leaves them,
\* what it reported, and whether it threw
RECURSIVE ResolveGroups(_, _, _)
ResolveGroups(gs, i, reports) ==
    IF i > Len(gs) THEN [groups |-> gs, reports |-> reports, thrown |-> FALSE]
    ELSE LET startIndex == getIndexForStaff(baseList, gs[i].startInst)
             endIndex == getIndexForStaff(baseList, gs[i].endInst)
         IN  IF startIndex = <<>> \/ endIndex = <<>>
             THEN IF Throws
                  THEN [groups |-> gs, reports |-> Append(reports, i), thrown |-> TRUE]
                  ELSE ResolveGroups(gs, i + 1, Append(reports, i))
             ELSE ResolveGroups(
                      [gs EXCEPT ![i] = InsertStaves(@, baseList, startIndex[1], endIndex[1])],
                      i + 1, reports)

\* as addResolver, but the key is not looked up
addResolverAgain(kind, key) ==
    [resolvers |-> Append(resolvers, [id |-> added + 1, key |-> key, kind |-> kind]),
     registeredResolvers |-> IF key # "" THEN registeredResolvers \cup {key}
                             ELSE registeredResolvers,
     stored |-> TRUE]

\* ElementLinker::addResolver(resolver, key): the linker as the call leaves
\* it; the resolver is numbered and remembers its kind and its key
addResolver(kind, key) ==
    IF key # "" /\ key \in registeredResolvers
    THEN [resolvers |-> resolvers, registeredResolvers |-> registeredResolvers,
          stored |-> FALSE]
    ELSE [resolvers |-> Append(resolvers, [id |-> added + 1, key |-> key, kind |-> kind]),
          registeredResolvers |-> IF key # "" THEN registeredResolvers \cup {key}
                                  ELSE registeredResolvers,
          stored |-> TRUE]

\* as ResolveLoop, but a resolver that throws is passed over
RECURSIVE ResolveLoopNoThrow(_, _, _, _)
ResolveLoopNoThrow(i, gs, invoked, reports) ==
    IF i > Len(resolvers)
    THEN [groups |-> gs, invoked |-> invoked, reports |-> reports, thrown |-> FALSE]
    ELSE IF resolvers[i].kind = "StaffGroup"
    THEN LET r == ResolveGroups(gs, 1, reports)
         IN  ResolveLoopNoThrow(i + 1, r.groups, Append(invoked, resolvers[i].id),
                                r.reports)
    ELSE ResolveLoopNoThrow(i + 1, gs, Append(invoked, resolvers[i].id), reports)

\* the loop of lines 509-511 from resolver i on
RECURSIVE ResolveLoop(_, _, _, _)
ResolveLoop(i, gs, invoked, reports) ==
    IF i > Len(resolvers)
    THEN [groups |-> gs, invoked |-> invoked, reports |-> reports, thrown |-> FALSE]
    ELSE IF resolvers[i].kind = "StaffGroup"
    THEN LET r == ResolveGroups(gs, 1, reports)
         IN  IF r.thrown
             THEN [groups |-> r.groups, invoked |-> Append(invoked, resolvers[i].id),
                   reports |-> r.reports, thrown |-> TRUE]
             ELSE ResolveLoop(i + 1, r.groups, Append(invoked, resolvers[i].id),
                              r.reports)
    ELSE ResolveLoop(i + 1, gs, Append(invoked, resolvers[i].id), reports)

\* called holds the linker (and the groups) as the call found them
\* a populator hands the linker a resolver: the StaffGroup resolver, which
\* has no key (lines 696-702), or one that changes nothing, under a key or
\* without one
CallAddResolver(kind, key) ==
    /\ added < MaxAdded \/ ~addResolver(kind, key).stored
    /\ LET linker == addResolver(kind, key)
       IN  /\ resolvers' = linker.resolvers
           /\ registeredResolvers' = linker.registeredResolvers
           /\ added' = IF linker.stored THEN added + 1 ELSE added
           /\ returned' = [thrown |-> "none", value |-> linker.stored, reports |-> <<>>]
    /\ called' = [op |-> "addResolver", key |-> key, kind |-> kind,
                  stored |-> resolvers, registered |-> registeredResolvers]
    /\ UNCHANGED <<doc, iteration, previous, buffer, original, crypts, baseList,
                   groups, clefDefs, clefXml>>

\* ElementLinker::resolveAll(document)
CallResolveAll ==
    LET r == ResolveLoop(1, groups, <<>>, <<>>)
    IN  /\ groups' = r.groups
        /\ resolvers' = IF r.thrown THEN resolvers ELSE <<>>
        /\ registeredResolvers' = IF r.thrown THEN registeredResolvers ELSE {}
        /\ returned' = [thrown |-> IF r.thrown THEN "integrity_error" ELSE "none",
                        value |-> r.invoked, reports |-> r.reports]
        /\ called' = [op |-> "resolveAll", stored |-> resolvers,
                      registered |-> registeredResolvers, groups |-> groups]
        /\ UNCHANGED <<doc, iteration, previous, buffer, original, crypts, added,
                       baseList, clefDefs, clefXml>>

\* InstrumentUsed::getStaffAtIndex(iuArray, index) on the base list: the
\* outcomes of the call, each with the index of the array it read (-1: none);
\* the Staff of a listed staff id is the one of that id
getStaffAtIndex(iuArray, index) ==
    IF index > Len(iuArray)
    THEN { [thrown |-> "none", value |-> 0, reports |-> <<>>, read |-> -1] }
    ELSE IF index < Len(iuArray)
    THEN { [thrown |-> "none", value |-> iuArray[index + 1], reports |-> <<>>,
            read |-> index] }
    ELSE \* iuArray[size]: what is past the end is read as a shared_ptr
         { [thrown |-> "none", value |-> v, reports |-> <<>>, read |-> index] :
             v \in 0..NoSuchStaff }
         \cup { [thrown |-> "crash", value |-> 0, reports |-> <<>>, read |-> index] }

CallGetStaffAtIndex(index) ==
    /\ called' = [op |-> "getStaffAtIndex", index |-> index]
    /\ returned' \in getStaffAtIndex(baseList, index)
    /\ UNCHANGED <<doc, iteration, previous, components>>

\* the base list holds the staves 1..n in order, or all staves rotated
BaseLists ==
    { [x \in 1..n |-> x] : n \in 0..NumListed }
    \cup { [x \in 1..NumListed |-> (x % NumListed) + 1] }

\* one group between any two staff ids, listed or not; two groups of which
\* the first or the second names a staff that is not listed; no group
GroupLists ==
    { <<StaffGroup(s, e)>> : s \in 1..NoSuchStaff, e \in 1..NoSuchStaff }
    \cup { <<StaffGroup(NoSuchStaff, 1), StaffGroup(1, NumListed)>>,
           <<StaffGroup(1, 2), StaffGroup(2, NoSuchStaff)>>,
           <<>> }

ResolverKeys == {"", "a", "b"}

InitFactory ==
    /\ strict \in BOOLEAN
    /\ PlainScore
    /\ NothingCalled
    /\ baseList \in BaseLists
    /\ groups \in GroupLists
    /\ LinkerAtRest
    /\ EncoderAtRest
    /\ ClefOptionsAtRest

NextFactory ==
    \/ \E key \in ResolverKeys : CallAddResolver("plain", key)
    \/ CallAddResolver("StaffGroup", "")
    \/ CallResolveAll
    \/ \E index \in 0..(NumListed + 1) : CallGetStaffAtIndex(index)

SpecFactory == InitFactory /\ [][NextFactory]_vars

(***************************************************************************)
(* FieldPopulator<ClefOptions>                                             *)
(***************************************************************************)
\* a clefDef element: its index attribute (-1 when it has none, as line 177
\* reads it), whether it has a useOwnFont child and whether it has a font child
ClefDefElements ==
    [index : -1..NumClefDefs, useOwnFont : BOOLEAN, font : BOOLEAN]

\* ClefOptions::ClefDef as resize() creates it
NewClefDef == [useOwnFont |-> FALSE, font |-> FALSE]

\* std::vector::resize
Resize(defs, n) ==
    [x \in 1..n |-> IF x <= Len(defs) THEN defs[x] ELSE NewClefDef]

\* populateClefDef(element, document, def): the def as the call leaves it and
\* whether it threw; getFieldFromXml leaves a field alone when the element
\* has no such child
populateClefDef(element, def) ==
    LET withFont == [def EXCEPT !.font = element.font]
    IN  IF withFont.useOwnFont /\ ~withFont.font
        THEN [def |-> withFont, thrown |-> TRUE]
        ELSE [def |-> [withFont EXCEPT !.useOwnFont = IF element.useOwnFont THEN TRUE ELSE @],
              thrown |-> FALSE]

\* the loop of lines 170-181 from element i (from 0) on, and line 182
RECURSIVE PopulateLoop(_, _, _)
PopulateLoop(xml, defs, i) ==
    IF i >= Len(xml)
    THEN [clefDefs |-> Resize(defs, i), thrown |-> "none", value |-> ""]
    ELSE LET sized == IF i >= Len(defs) THEN Resize(defs, i + 1) ELSE defs
         IN  IF xml[i + 1].index # i
             THEN [clefDefs |-> sized, thrown |-> "invalid_argument",
                   value |-> "ClefDef index mismatch."]
             ELSE LET r == populateClefDef(xml[i + 1], sized[i + 1])
                  IN  IF r.thrown
                      THEN [clefDefs |-> [sized EXCEPT ![i + 1] = r.def],
                            thrown |-> "invalid_argument",
                            value |-> "Use own font was specified, but no font was found in the xml."]
                      ELSE PopulateLoop(xml, [sized EXCEPT ![i + 1] = r.def], i + 1)

\* FieldPopulator<ClefOptions>::populate(instance, element, linker) on the
\* instance the factory has just created
CallPopulate ==
    /\ called.op = "none"
    /\ LET r == PopulateLoop(clefXml, clefDefs, 0)
       IN  /\ clefDefs' = r.clefDefs
           /\ returned' = [thrown |-> r.thrown, value |-> r.value, reports |-> <<>>]
    /\ called' = [op |-> "populate", entry |-> 0]
    /\ UNCHANGED <<doc, iteration, previous, buffer, original, crypts, resolvers,
                   registeredResolvers, added, baseList, groups, clefXml>>

InitClef ==
    /\ strict = FALSE
    /\ PlainScore
    /\ NothingCalled
    /\ clefXml \in UNION { [1..n -> ClefDefElements] : n \in 0..NumClefDefs }
    /\ clefDefs = <<>>
    /\ EncoderAtRest
    /\ LinkerAtRest
    /\ StavesAtRest

NextClef == CallPopulate

SpecClef == InitClef /\ [][NextClef]_vars

(***************************************************************************)
(* Member functions of Entry, TupletDef and GFrameHold                     *)
(***************************************************************************)
\* a member function returned v, threw, or returned v after reports
Return(v) == [thrown |-> "none", value |-> v, reports |-> <<>>]
Throw(exception, reports) == [thrown |-> exception, value |-> 0, reports |-> reports]
ReturnAfter(v, reports) ==
    IF reports # <<>> /\ Throws THEN Throw("integrity_error", <<reports[1]>>)
    ELSE [thrown |-> "none", value |-> v, reports |-> reports]

\* 0x10000: durations from here on have no note type
NoteTypeLimit == 65536

\* the loop of lines 558-563: value >>= 1, msb <<= 1 while value > 1
RECURSIVE MostSignificantBit(_, _)
MostSignificantBit(value, msb) ==
    IF value > 1 THEN MostSignificantBit(value \div 2, msb * 2) ELSE msb

\* as calcNoteType, but a duration of 1 is in range
calcNoteTypeOfOne(e) ==
    IF duration[e] < 1 \/ duration[e] >= NoteTypeLimit
    THEN Throw("invalid_argument", <<>>)
    ELSE Return(MostSignificantBit(duration[e], 1))

\* Entry::calcNoteType
calcNoteType(e) ==
    IF duration[e] <= 1 \/ duration[e] >= NoteTypeLimit
    THEN Throw("invalid_argument", <<>>)
    ELSE Return(MostSignificantBit(duration[e], 1))

\* duration & msb, for msb a power of two or 0
BitAnd(d, msb) == IF msb = 0 THEN 0 ELSE ((d \div msb) % 2) * msb

\* the loop of lines 571-573: count++, msb >>= 1 while duration & msb
RECURSIVE CountDots(_, _, _)
CountDots(d, msb, count) ==
    IF BitAnd(d, msb) # 0 THEN CountDots(d, msb \div 2, count + 1) ELSE count

\* as calcAugmentationDots, but the count starts at the note type's own bit
calcAugmentationDotsFromNoteType(e) ==
    LET noteType == calcNoteType(e)
    IN  IF noteType.thrown # "none" THEN noteType
        ELSE Return(CountDots(duration[e], noteType.value, 0))

\* Entry::calcAugmentationDots
calcAugmentationDots(e) ==
    LET noteType == calcNoteType(e)
    IN  IF noteType.thrown # "none" THEN noteType
        ELSE Return(CountDots(duration[e], noteType.value \div 2, 0))

\* a fraction-valued member function returned f or threw in producing it
ReturnFraction(f) ==
    IF f = InvalidArgument THEN Throw("invalid_argument", <<>>) ELSE Return(f)

\* as integrityCheck, but a clef id of value 0 counts as absent
integrityCheckByValue ==
    LET hasClef == clefId # <<>> /\ clefId[1] # 0
        both == IF clefListId # 0 /\ hasClef
                THEN <<"both clef and clef list">> ELSE <<>>
        neither == IF clefListId = 0 /\ ~hasClef
                   THEN <<"neither clef nor clef list">> ELSE <<>>
    IN  ReturnAfter(0, both \o neither)

\* GFrameHold::integrityCheck
integrityCheck ==
    LET has_value == clefId # <<>>
        both == IF clefListId # 0 /\ has_value
                THEN <<"both clef and clef list">> ELSE <<>>
        neither == IF clefListId = 0 /\ ~has_value
                   THEN <<"neither clef nor clef list">> ELSE <<>>
    IN  ReturnAfter(0, both \o neither)

\* the caller calls a member function of entry e, of the first tuplet of
\* entry e, or of the frame holder
CallGetNext(e) ==
    /\ called' = [op |-> "getNext", entry |-> e]
    /\ returned' = LET next == getNext(e)
                   IN  ReturnAfter(next.entry,
                           IF next.error THEN <<"next entry does not exist">> ELSE <<>>)
    /\ UNCHANGED <<doc, iteration, previous, components>>

CallGetPrevious(e) ==
    /\ called' = [op |-> "getPrevious", entry |-> e]
    /\ returned' = LET prev == getPrevious(e)
                   IN  ReturnAfter(prev.entry,
                           IF prev.error THEN <<"previous entry does not exist">> ELSE <<>>)
    /\ UNCHANGED <<doc, iteration, previous, components>>

CallCalcNoteType(e) ==
    /\ called' = [op |-> "calcNoteType", entry |-> e]
    /\ returned' = calcNoteType(e)
    /\ UNCHANGED <<doc, iteration, previous, components>>

CallCalcAugmentationDots(e) ==
    /\ called' = [op |-> "calcAugmentationDots", entry |-> e]
    /\ returned' = calcAugmentationDots(e)
    /\ UNCHANGED <<doc, iteration, previous, components>>

CallCalcRatio(e) ==
    /\ getTupletArray(e) # <<>>
    /\ called' = [op |-> "calcRatio", entry |-> e]
    /\ returned' = ReturnFraction(calcRatio(getTupletArray(e)[1]))
    /\ UNCHANGED <<doc, iteration, previous, components>>

CallIntegrityCheck ==
    /\ called' = [op |-> "integrityCheck", entry |-> 0]
    /\ returned' = integrityCheck
    /\ UNCHANGED <<doc, iteration, previous, components>>

\* back links: the chain backwards, or entry 1 naming an entry the pool
\* lacks, or entry 1 naming the last entry
BackChains ==
    { [e \in Entries |-> IF e = 1 THEN n ELSE e - 1] : n \in {0, NoSuchEntry, NumEntries} }

\* durations around the ends of the valid range, every small duration, and
\* plain, dotted and irregular note values
NoteDurations ==
    (-2..MaxSmallEdu) \cup
    { 96, 128, 192, 224, 240, 256, 384, 448, 512, 768, 896, 960, 1000, 1024,
      1025, 1536, 1537, 1792, 1920, 1984, 2047, 2048, 3072, 3584, 4096, 6144,
      7168, 8192, 12288, 16384, 24576, 32767, 32768, 49152, 57344, 65534,
      65535, 65536, 65537, 98304, 131072 }

\* tuplet definitions of every sign, with zero numbers and zero durations
TupletSamples ==
    { TupletDef(dn, dd, rn, rd) :
        dn \in {-2, 0, 1, 3}, dd \in {-512, 0, 512, 768},
        rn \in {-1, 0, 2, 5}, rd \in {0, 3, 512, 1024} }

\* a document that differs from the plain one (default mode, three quarter
\* notes in a chain, no tuplet, frame 1 over all entries in layer 0, the
\* holder of staff 1 and measure 2 with clef 0) in one respect
InitEntities ==
    /\ \/ /\ strict \in BOOLEAN
          /\ m_next \in Chains
          /\ m_prev \in BackChains
          /\ duration = [e \in Entries |-> Quarter]
          /\ tupletDefs = [e \in Entries |-> <<T1>>]
          /\ OneCell
       \/ /\ strict = FALSE
          /\ m_next = [e \in Entries |-> IF e < NumEntries THEN e + 1 ELSE 0]
          /\ m_prev = BackLinks
          /\ \E d \in NoteDurations : duration = [e \in Entries |-> d]
          /\ tupletDefs = [e \in Entries |-> <<T1>>]
          /\ OneCell
       \/ /\ strict = FALSE
          /\ m_next = [e \in Entries |-> IF e < NumEntries THEN e + 1 ELSE 0]
          /\ m_prev = BackLinks
          /\ duration = [e \in Entries |-> Quarter]
          /\ \E t \in TupletSamples : tupletDefs = [e \in Entries |-> <<t>>]
          /\ OneCell
       \/ /\ strict \in BOOLEAN
          /\ m_next = [e \in Entries |-> IF e < NumEntries THEN e + 1 ELSE 0]
          /\ m_prev = BackLinks
          /\ duration = [e \in Entries |-> Quarter]
          /\ tupletDefs = [e \in Entries |-> <<T1>>]
          /\ inst = 1
          /\ meas = 2
          /\ clefId \in {<<>>} \cup {<<c>> : c \in 0..MaxClef}
          /\ clefListId \in 0..MaxClef
    /\ frameIncis = [f \in FrameIds |-> <<Frame(f, NumEntries, 0)>>]
    /\ frames = Holder(1, 0, 0, 0)
    /\ called = NoCall
    /\ returned = NoReturn
    /\ NoPrevious
    /\ ComponentsAtRest
    /\ pc = "idle"
    /\ wholeCell = FALSE
    /\ layerIndex = 0
    /\ frame = Frame(0, 0, 0)
    /\ nextEntry = 0
    /\ activeTuplets = <<>>
    /\ actualElapsedDuration = FracInt(0)
    /\ result = "none"
    /\ integrityErrors = <<>>
    /\ emitted = <<>>

NextEntities ==
    \/ \E e \in Entries : CallGetNext(e)
    \/ \E e \in Entries : CallGetPrevious(e)
    \/ \E e \in Entries : CallCalcNoteType(e)
    \/ \E e \in Entries : CallCalcAugmentationDots(e)
    \/ \E e \in Entries : CallCalcRatio(e)
    \/ CallIntegrityCheck

SpecEntities == InitEntities /\ [][NextEntities]_vars


(***************************************************************************)
(* What the claims speak of                                                *)
(***************************************************************************)
Emitted == 1..Len(emitted)

\* the i-th callback is the first one of its single-layer traversal
FirstOfLayer(i) == i = 1 \/ emitted[i - 1].layerIndex # emitted[i].layerIndex
\* the i-th callback is the last one so far of its single-layer traversal
LastOfLayer(i) == i = Len(emitted) \/ emitted[i + 1].layerIndex # emitted[i].layerIndex

\* the incarnations of the frame of layer l, and the one with the start entry
LayerIncis(l) == IF frames[l] \in FrameIds THEN frameIncis[frames[l]] ELSE <<>>
HasMarker(l) == \E i \in 1..Len(LayerIncis(l)) : LayerIncis(l)[i].startEntry # 0
MarkerFrame(l) ==
    LET incis == LayerIncis(l)
        m == CHOOSE i \in 1..Len(incis) :
                /\ incis[i].startEntry # 0
                /\ \A j \in 1..(i - 1) : incis[j].startEntry = 0
    IN  incis[m]
\* the single-layer traversal of layer l reaches its loop
Iterable(l) == HasMarker(l) /\ MarkerFrame(l).startEntry \in Entries

NominalDuration(e) == Fraction(duration[e], Whole)

RECURSIVE ProductOfRatios(_)
ProductOfRatios(ts) ==
    IF ts = <<>> THEN <<1, 1>>
    ELSE FracMul(ProductOfRatios(SubSeq(ts, 1, Len(ts) - 1)), ts[Len(ts)].ratio)

\* C1: every emitted entry's actual duration is its nominal duration times the
\* product of the ratios of the tuplets active at it (1 when there is none);
\* an entry at which two tuplets of ratios r1 and r2 start, with no other
\* tuplet active, has the actual duration nominal x r1 x r2.
C1_ActualDuration ==
    \A i \in Emitted :
        LET info == emitted[i]
            started == tupletDefs[info.entry]
        IN  /\ info.actualDuration =
                  FracMul(NominalDuration(info.entry), ProductOfRatios(info.activeTuplets))
            /\ (FirstOfLayer(i) /\ Len(started) = 2) =>
                  info.actualDuration =
                      FracMul(FracMul(NominalDuration(info.entry), calcRatio(started[1])),
                              calcRatio(started[2]))

\* an entry was emitted at which two tuplets started together, scaled by 3/4 x 2/3
C1_Witness ==
    \E i \in Emitted :
        /\ FirstOfLayer(i)
        /\ tupletDefs[emitted[i].entry] = <<T1, T2>>
        /\ Len(emitted[i].activeTuplets) = 2
        /\ emitted[i].actualDuration = FracMul(NominalDuration(emitted[i].entry), <<1, 2>>)

\* C2: in a single-layer call, once the callback has returned false for an
\* entry (the end entry included) that callback is the last one of the call,
\* and the call has returned false.
C2_HaltOnFalse ==
    ~wholeCell =>
        \A i \in Emitted :
            ~emitted[i].continue =>
                /\ i = Len(emitted)
                /\ pc = "done"
                /\ result = "false"

\* the callback returned false for the frame's end entry, after an earlier
\* callback, in a single-layer call
C2_Witness ==
    /\ ~wholeCell
    /\ Len(emitted) >= 2
    /\ ~emitted[Len(emitted)].continue
    /\ emitted[Len(emitted)].entry = frame.endEntry
    /\ result = "false"

\* C3: the whole-cell call emits in ascending layer order; when a callback
\* returned false no further callback follows and the call returned false;
\* a call that ended otherwise returned true, unless a consistency violation
\* was thrown in strict mode; a call that returned true has traversed every
\* layer that has entries to emit, and no callback returned false.
C3_WholeCellOrder ==
    wholeCell =>
        /\ \A i, j \in Emitted : i < j => emitted[i].layerIndex <= emitted[j].layerIndex
        /\ \A i \in Emitted : emitted[i].layerIndex \in 0..(MAX_LAYERS - 1)
        /\ \A i \in Emitted :
              ~emitted[i].continue =>
                  i = Len(emitted) /\ pc = "done" /\ result = "false"
        /\ (pc = "done" /\ result = "false") =>
              emitted # <<>> /\ ~emitted[Len(emitted)].continue
        /\ (pc = "done" /\ result # "false") =>
              result = IF strict /\ integrityErrors # <<>> THEN "integrity_error"
                       ELSE "true"
        /\ (pc = "done" /\ result = "true") =>
              /\ \A i \in Emitted : emitted[i].continue
              /\ \A l \in 0..(MAX_LAYERS - 1) :
                    Iterable(l) => \E i \in Emitted : emitted[i].layerIndex = l

\* a whole-cell call emitted entries of two layers and was then stopped by the
\* callback, with a later layer left that has entries
C3_Witness ==
    /\ wholeCell
    /\ result = "false"
    /\ \E i, j \in Emitted : emitted[i].layerIndex < emitted[j].layerIndex
    /\ \E l \in 0..(MAX_LAYERS - 1) :
          l > emitted[Len(emitted)].layerIndex /\ Iterable(l)

\* a whole-cell call over two layers with entries returned true
C3_WitnessTrue ==
    /\ wholeCell
    /\ result = "true"
    /\ \E i, j \in Emitted : emitted[i].layerIndex < emitted[j].layerIndex

\* C4: a single-layer traversal emits the frame's start entry first and then
\* follows the next links; the frame's end entry is emitted only as the last
\* callback of the traversal (so once, and nothing after it), and a call
\* whose traversal stopped at the end entry returned true.
C4_ChainOrder ==
    /\ \A i \in Emitted :
          LET l == emitted[i].layerIndex
          IN  /\ Iterable(l)
              /\ FirstOfLayer(i) => emitted[i].entry = MarkerFrame(l).startEntry
              /\ ~FirstOfLayer(i) => emitted[i].entry = m_next[emitted[i - 1].entry]
              /\ emitted[i].entry = MarkerFrame(l).endEntry =>
                    /\ LastOfLayer(i)
                    /\ (i = Len(emitted) /\ ~wholeCell) => pc = "done"
    /\ (/\ ~wholeCell
        /\ pc = "done"
        /\ emitted # <<>>
        /\ emitted[Len(emitted)].continue
        /\ emitted[Len(emitted)].entry = MarkerFrame(layerIndex).endEntry)
       => result = "true"

\* a single-layer call emitted several entries, the last the end entry, returned
\* true, and the end entry has a next entry in the chain
C4_Witness ==
    /\ ~wholeCell
    /\ pc = "done"
    /\ result = "true"
    /\ Len(emitted) >= 2
    /\ emitted[Len(emitted)].entry = MarkerFrame(layerIndex).endEntry
    /\ m_next[MarkerFrame(layerIndex).endEntry] \in Entries


\* the last callback so far
LastEmitted == emitted[Len(emitted)]

\* C5: when the chain ends (the entry last emitted is not the frame's end
\* entry and has no next entry), a single-layer call has reported a
\* consistency violation; in strict mode it failed, in default mode it
\* stopped.
C5_ChainEndsEarly ==
    (/\ ~wholeCell
     /\ pc = "done"
     /\ emitted # <<>>
     /\ LastEmitted.continue
     /\ LastEmitted.entry # MarkerFrame(layerIndex).endEntry
     /\ m_next[LastEmitted.entry] \notin Entries)
    => /\ integrityErrors # <<>>
       /\ strict => result = "integrity_error"
       /\ ~strict => result = "true"

\* C6: a single-layer call whose callback always returns true makes at most
\* as many callbacks as the document has entries.
C6_BoundedCallbacks ==
    (~wholeCell /\ \A i \in Emitted : emitted[i].continue) =>
        Len(emitted) <= NumEntries

\* C7: a single-layer call with a layer index of MAX_LAYERS or more has
\* failed with invalid_argument, in strict and in default mode, with no
\* callback made and nothing else reported.
C7_InvalidLayer ==
    (~wholeCell /\ pc # "idle" /\ layerIndex >= MAX_LAYERS) =>
        /\ pc = "done"
        /\ result = "invalid_argument"
        /\ emitted = <<>>
        /\ integrityErrors = <<>>

\* in default mode, the call for layer index MAX_LAYERS failed
C7_Witness ==
    /\ ~strict
    /\ ~wholeCell
    /\ layerIndex = MAX_LAYERS
    /\ result = "invalid_argument"

RECURSIVE SumOfStartTimes(_)
SumOfStartTimes(incis) ==
    IF incis = <<>> THEN 0
    ELSE incis[1].startTime + SumOfStartTimes(Tail(incis))

\* the start times of all incarnations of the frame of layer l, in whole notes
PreRoll(l) == Fraction(SumOfStartTimes(LayerIncis(l)), Whole)

RECURSIVE ElapsedBefore(_)
ElapsedBefore(i) ==
    IF FirstOfLayer(i) THEN PreRoll(emitted[i].layerIndex)
    ELSE FracAdd(ElapsedBefore(i - 1), emitted[i - 1].actualDuration)

\* C9: every emitted entry's elapsed duration is the pre-roll plus the sum of
\* the actual durations of the entries emitted before it in the traversal.
C9_Elapsed ==
    \A i \in Emitted : emitted[i].elapsedDuration = ElapsedBefore(i)

\* a third entry was emitted after a pre-roll and two entries scaled by tuplets
C9_Witness ==
    \E i \in Emitted :
        /\ i >= 3
        /\ ~FirstOfLayer(i) /\ ~FirstOfLayer(i - 1)
        /\ emitted[i - 2].elapsedDuration # <<0, 1>>
        /\ emitted[i - 2].activeTuplets # <<>>
        /\ emitted[i - 1].activeTuplets # <<>>

\* the tuplet states that start at an entry
StartedAt(e) ==
    [k \in 1..Len(tupletDefs[e]) |->
        [remainingSymbolicDuration |-> calcDisplayDuration(tupletDefs[e][k]),
         ratio |-> calcRatio(tupletDefs[e][k]),
         tuplet |-> tupletDefs[e][k]]]

\* the tuplet states left of ts after an entry of the actual duration given
RECURSIVE LeftAfter(_, _)
LeftAfter(ts, actual) ==
    IF ts = <<>> THEN <<>>
    ELSE LET remaining == FracSub(ts[1].remainingSymbolicDuration,
                                  FracDiv(actual, ts[1].ratio))
             rest == LeftAfter(Tail(ts), actual)
         IN  IF remaining[1] > 0
             THEN <<[ts[1] EXCEPT !.remainingSymbolicDuration = remaining]>> \o rest
             ELSE rest

\* C10: after an emitted entry that is not the end entry, every active tuplet
\* has its remaining symbolic duration decreased by the entry's actual duration
\* divided by the tuplet's ratio, and the tuplets left with a remaining
\* duration of zero or less are gone from the active set: they are not among
\* the tuplets active at the next entry.
C10_TupletDecay ==
    /\ \A i \in Emitted :
          emitted[i].activeTuplets =
              (IF FirstOfLayer(i) THEN <<>>
               ELSE LeftAfter(emitted[i - 1].activeTuplets, emitted[i - 1].actualDuration))
              \o StartedAt(emitted[i].entry)
    /\ (pc = "loop" /\ emitted # <<>> /\ LastEmitted.layerIndex = layerIndex) =>
          activeTuplets = LeftAfter(LastEmitted.activeTuplets, LastEmitted.actualDuration)

\* a tuplet was used up exactly by two entries and the next entry was emitted
\* with its nominal duration
C10_Witness ==
    \E i \in Emitted :
        /\ i >= 3
        /\ ~FirstOfLayer(i) /\ ~FirstOfLayer(i - 1)
        /\ emitted[i - 2].activeTuplets = <<TupletState(T1)>>
        /\ Len(emitted[i - 1].activeTuplets) = 1
        /\ emitted[i].activeTuplets = <<>>
        /\ emitted[i].actualDuration = NominalDuration(emitted[i].entry)


\* C11: a single-layer call on a slot with a frame id of which no incarnation
\* has a start entry (or which has no incarnation) has reported one
\* consistency violation and made no callback; in default mode it returned
\* true, in strict mode it failed.
C11_NoStartMarker ==
    (/\ ~wholeCell
     /\ pc # "idle"
     /\ layerIndex < MAX_LAYERS
     /\ frames[layerIndex] # 0
     /\ ~HasMarker(layerIndex))
    => /\ pc = "done"
       /\ emitted = <<>>
       /\ integrityErrors = <<"non-existent frame">>
       /\ result = IF strict THEN "integrity_error" ELSE "true"

\* in default mode, the call on a frame id whose only incarnation has no start
\* entry returned true after the report
C11_Witness ==
    /\ ~wholeCell
    /\ ~strict
    /\ pc = "done"
    /\ layerIndex < MAX_LAYERS
    /\ frames[layerIndex] \in FrameIds
    /\ LayerIncis(layerIndex) # <<>>
    /\ ~HasMarker(layerIndex)
    /\ result = "true"
    /\ integrityErrors # <<>>

\* C12: a call on a frame whose start entry is not in the entry pool (a
\* single-layer call, or a strict whole-cell call that meets the frame first)
\* has reported the violation 'not iterable' and made no callback; in strict
\* mode it failed with an integrity error, in default mode it returned true.
C12_NotIterable ==
    (/\ pc # "idle"
     /\ layerIndex < MAX_LAYERS
     /\ HasMarker(layerIndex)
     /\ ~Iterable(layerIndex)
     /\ \/ ~wholeCell
        \/ strict /\ \A l \in 0..(layerIndex - 1) : frames[l] = 0)
    => /\ pc = "done"
       /\ emitted = <<>>
       /\ integrityErrors = <<"not iterable">>
       /\ result = IF strict THEN "integrity_error" ELSE "true"

\* in strict mode, the call on a frame whose start entry does not exist failed
C12_Witness ==
    /\ strict
    /\ pc = "done"
    /\ layerIndex < MAX_LAYERS
    /\ HasMarker(layerIndex)
    /\ MarkerFrame(layerIndex).startEntry = NoSuchEntry
    /\ result = "integrity_error"
    /\ emitted = <<>>


\* C13: a finished single-layer call returned false exactly when its last
\* callback returned false; in default mode every other finished call on a
\* valid layer (end entry reached, empty layer, chain exhausted early,
\* non-iterable frame) returned true.
C13_FalseIffCallback ==
    (~wholeCell /\ pc = "done")
    => /\ result = "false" <=> (emitted # <<>> /\ ~LastEmitted.continue)
       /\ (~strict /\ layerIndex < MAX_LAYERS /\ result # "false")
          => result = "true"

\* in default mode, a call whose chain ran out before the end entry returned
\* true after the report, every callback having returned true
C13_Witness ==
    /\ ~wholeCell
    /\ ~strict
    /\ pc = "done"
    /\ emitted # <<>>
    /\ LastEmitted.continue
    /\ LastEmitted.entry # MarkerFrame(layerIndex).endEntry
    /\ integrityErrors # <<>>
    /\ result = "true"

\* C15: a single-layer call on a slot whose frame id is 0 has returned true
\* with no callback and no report of a violation.
C15_EmptyLayer ==
    (~wholeCell /\ pc # "idle" /\ layerIndex < MAX_LAYERS /\ frames[layerIndex] = 0)
    => /\ pc = "done"
       /\ result = "true"
       /\ emitted = <<>>
       /\ integrityErrors = <<>>

\* in strict mode, the call on an empty slot of a holder that has a frame in
\* another slot returned true
C15_Witness ==
    /\ ~wholeCell
    /\ strict
    /\ pc = "done"
    /\ layerIndex < MAX_LAYERS
    /\ frames[layerIndex] = 0
    /\ \E l \in 0..(MAX_LAYERS - 1) : frames[l] # 0
    /\ result = "true"


\* C14: every EntryInfo handed to the callback carries the staff and the
\* measure of the frame holder and the index of the layer being traversed: in
\* a single-layer call the layer asked for, in a whole-cell call a populated
\* layer whose traversal starts at its frame's start entry; the whole-cell
\* call on a holder whose only populated slot is layer 0 emits layer index 0
\* only.
C14_LayerStaffMeasure ==
    /\ \A i \in Emitted :
          /\ emitted[i].staff = inst
          /\ emitted[i].measure = meas
          /\ ~wholeCell => emitted[i].layerIndex = layerIndex
          /\ emitted[i].layerIndex \in 0..(MAX_LAYERS - 1)
          /\ Iterable(emitted[i].layerIndex)
          /\ FirstOfLayer(i) =>
                emitted[i].entry = MarkerFrame(emitted[i].layerIndex).startEntry
    /\ (wholeCell /\ \A l \in 1..(MAX_LAYERS - 1) : frames[l] = 0)
       => \A i \in Emitted : emitted[i].layerIndex = 0

\* the whole-cell call on the holder of staff 2, measure 1 whose only
\* populated slot is layer 0 ended after two callbacks
C14_Witness ==
    /\ wholeCell
    /\ pc = "done"
    /\ inst = 2
    /\ meas = 1
    /\ frames[0] # 0
    /\ \A l \in 1..(MAX_LAYERS - 1) : frames[l] = 0
    /\ Len(emitted) >= 2
    /\ result = "true"


\* C16: GFrameHold::integrityCheck on a holder with both a clef id and a
\* non-zero clef-list id, or with neither, has raised one consistency
\* violation (thrown in strict mode); on a holder with exactly one of the two
\* it has raised none, a present clef id of value 0 counting as set.
C16_ClefIntegrity ==
    called.op = "integrityCheck" =>
        LET hasClef == Len(clefId) = 1
            hasList == clefListId # 0
            violation == returned.reports # <<>>
        IN  /\ (hasClef /\ hasList) => violation
            /\ (~hasClef /\ ~hasList) => violation
            /\ (hasClef # hasList) => (~violation /\ returned.thrown = "none")
            /\ violation =>
                  /\ Len(returned.reports) = 1
                  /\ returned.thrown = IF strict THEN "integrity_error" ELSE "none"

\* in strict mode, the check of a holder with clef id 0 and no clef list
\* passed
C16_Witness ==
    /\ called.op = "integrityCheck"
    /\ strict
    /\ clefId = <<0>>
    /\ clefListId = 0
    /\ returned = Return(0)

\* C17: calcRatio() of a tuplet definition is what calcReferenceDuration() /
\* calcDisplayDuration() gives: the same reduced fraction, with numerator x
\* (displayNumber x displayDuration) = denominator x (referenceNumber x
\* referenceDuration), when the display duration is not zero, and the same
\* invalid-argument failure when it is.
C17_ExactRatio ==
    called.op = "calcRatio" =>
        LET t == tupletDefs[called.entry][1]
            quotient == ReturnFraction(FracDiv(calcReferenceDuration(t),
                                               calcDisplayDuration(t)))
            display == t.displayNumber * t.displayDuration
            reference == t.referenceNumber * t.referenceDuration
        IN  /\ returned.thrown = quotient.thrown
            /\ returned.thrown = IF display = 0 THEN "invalid_argument" ELSE "none"
            /\ returned.thrown = "none" =>
                  /\ returned.value = quotient.value
                  /\ returned.value[1] * display = returned.value[2] * reference
                  /\ returned.value[2] > 0
                  /\ GCD(Abs(returned.value[1]), returned.value[2]) = 1

\* calcRatio() of -2 notes of 768 in the time of 5 notes of 3 returned -5/512
C17_Witness ==
    /\ called.op = "calcRatio"
    /\ tupletDefs[called.entry][1] = TupletDef(-2, 768, 5, 3)
    /\ returned = Return(<<-5, 512>>)

\* C18: getNext and getPrevious have returned the entry their link names
\* when the pool holds it, and none without a report when the link is 0; for
\* a non-zero link the pool does not hold they have reported one consistency
\* violation and returned none (default mode) or failed (strict mode).
C18_Links ==
    called.op \in {"getNext", "getPrevious"} =>
        LET link == IF called.op = "getNext" THEN m_next[called.entry]
                    ELSE m_prev[called.entry]
        IN  /\ link \in Entries => returned = Return(link)
            /\ link = 0 => returned = Return(0)
            /\ (link # 0 /\ link \notin Entries) =>
                  /\ Len(returned.reports) = 1
                  /\ returned.value = 0
                  /\ returned.thrown = IF strict THEN "integrity_error" ELSE "none"

\* in default mode, getNext of an entry whose link names an entry the pool
\* lacks returned none after one report
C18_Witness ==
    /\ called.op = "getNext"
    /\ ~strict
    /\ m_next[called.entry] = NoSuchEntry
    /\ returned.thrown = "none"
    /\ returned.value = 0
    /\ Len(returned.reports) = 1

\* in strict mode, getPrevious of an entry whose link names an entry the pool
\* lacks failed
C18_WitnessPrevious ==
    /\ called.op = "getPrevious"
    /\ strict
    /\ m_prev[called.entry] = NoSuchEntry
    /\ returned.thrown = "integrity_error"

PowersOfTwo == { 2^k : k \in 0..15 }

\* C19: calcNoteType has failed with invalid_argument for a duration <= 1 or
\* >= 65536; for every other duration d it has returned the power of two p
\* with p <= d < 2p.
C19_NoteType ==
    called.op = "calcNoteType" =>
        LET d == duration[called.entry]
        IN  IF d <= 1 \/ d >= 65536
            THEN returned.thrown = "invalid_argument"
            ELSE /\ returned.thrown = "none"
                 /\ returned.value \in PowersOfTwo
                 /\ returned.value <= d
                 /\ d < 2 * returned.value

\* calcNoteType of the largest valid duration, 65535, returned 32768
C19_Witness ==
    /\ called.op = "calcNoteType"
    /\ duration[called.entry] = 65535
    /\ returned = Return(32768)

\* bit i of d
Bit(d, i) == (d \div 2^i) % 2

\* C20: for a duration d with 1 < d < 65536 whose most-significant set bit is
\* bit m, calcAugmentationDots has returned the number k of set bits that
\* follow bit m without a gap (bits m-1 .. m-k are set and bit m-k-1, if there
\* is one, is clear); a duration of 2^m x (2 - 1/2^n) has n dots.
C20_AugmentationDots ==
    (/\ called.op = "calcAugmentationDots"
     /\ 1 < duration[called.entry]
     /\ duration[called.entry] < 65536)
    => LET d == duration[called.entry]
           m == CHOOSE i \in 0..15 : 2^i <= d /\ d < 2^(i + 1)
           k == returned.value
       IN  /\ returned.thrown = "none"
           /\ k \in 0..m
           /\ \A j \in 1..k : Bit(d, m - j) = 1
           /\ k < m => Bit(d, m - k - 1) = 0
           /\ \A n \in 0..m : d * 2^n = 2^m * (2^(n + 1) - 1) => k = n

\* the double-dotted quarter note, 1792, has two dots
C20_Witness ==
    /\ called.op = "calcAugmentationDots"
    /\ duration[called.entry] = 1792
    /\ returned = Return(2)

\* a duration with every bit below its most-significant bit set, 65535, has
\* fifteen dots
C20_WitnessAllSet ==
    /\ called.op = "calcAugmentationDots"
    /\ duration[called.entry] = 65535
    /\ returned = Return(15)


\* C24: the tuplets keyed to an emitted entry are the last ones of the active
\* list the entry's actual duration was computed from, in the order the lookup
\* returned them, each with its own ratio; the first entry of a tuplet that
\* starts alone, with no other tuplet active, is scaled by that tuplet's ratio.
C24_ActiveFromFirstEntry ==
    \A i \in Emitted :
        LET info == emitted[i]
            active == info.activeTuplets
            started == tupletDefs[info.entry]
            before == Len(active) - Len(started)
        IN  /\ before >= 0
            /\ \A k \in 1..Len(started) :
                  /\ active[before + k].tuplet = started[k]
                  /\ active[before + k].ratio = calcRatio(started[k])
            /\ info.actualDuration =
                  FracMul(calcFraction(info.entry), ProductOfRatios(active))
            /\ (Len(started) = 1 /\ before = 0) =>
                  info.actualDuration =
                      FracMul(NominalDuration(info.entry), calcRatio(started[1]))

\* the second entry of a layer was emitted as the first entry of the tuplet
\* T2 while T1 was still active, scaled by 3/4 x 2/3; and an entry was emitted
\* at which T1 and T2 started in this order
C24_Witness ==
    /\ \E i \in Emitted :
          /\ ~FirstOfLayer(i)
          /\ tupletDefs[emitted[i].entry] = <<T2>>
          /\ Len(emitted[i].activeTuplets) = 2
          /\ emitted[i].activeTuplets[1].tuplet = T1
          /\ emitted[i].activeTuplets[2].tuplet = T2
          /\ emitted[i].actualDuration = FracMul(NominalDuration(emitted[i].entry), <<1, 2>>)

\* an entry was emitted at which T1 and T2 started together, T1 pushed first
C24_WitnessTogether ==
    \E i \in Emitted :
        /\ tupletDefs[emitted[i].entry] = <<T1, T2>>
        /\ emitted[i].activeTuplets[1].tuplet = T1
        /\ emitted[i].activeTuplets[2].tuplet = T2


\* the callbacks i..j belong to one single-layer traversal, and no tuplet
\* starts at the entries after the i-th
PlainRun(i, j) ==
    /\ j \in Emitted
    /\ \A k \in (i + 1)..j :
          /\ ~FirstOfLayer(k)
          /\ tupletDefs[emitted[k].entry] = <<>>

RECURSIVE NominalSum(_, _)
NominalSum(i, j) ==
    IF j < i THEN <<0, 1>>
    ELSE FracAdd(NominalSum(i, j - 1), NominalDuration(emitted[j].entry))

RECURSIVE ActualSum(_, _)
ActualSum(i, j) ==
    IF j < i THEN <<0, 1>>
    ELSE FracAdd(ActualSum(i, j - 1), emitted[j].actualDuration)

\* the tuplet definitions of the states in an active list
TupletsOf(active) == { active[k].tuplet : k \in 1..Len(active) }

\* C25: a tuplet that starts at an emitted entry inside another active tuplet
\* of a ratio other than 1 is active at the entries i..j whose nominal
\* durations sum to its display duration and is gone at the entry after them,
\* which is scaled by the outer tuplet's ratio if that one is still active
\* alone.
C25_NestedTupletEnds ==
    \A i \in Emitted : \A j \in i..(Len(emitted) - 1) :
        LET active == emitted[i].activeTuplets
            started == tupletDefs[emitted[i].entry]
            inner == active[Len(active)]
            outer == active[Len(active) - 1]
            next == emitted[j + 1]
        IN  (/\ started # <<>>
             /\ Len(active) >= 2
             /\ outer.ratio # <<1, 1>>
             /\ PlainRun(i, j + 1)
             /\ NominalSum(i, j) = calcDisplayDuration(inner.tuplet))
            => /\ \A k \in i..j : inner.tuplet \in TupletsOf(emitted[k].activeTuplets)
               /\ inner.tuplet \notin TupletsOf(next.activeTuplets)
               /\ TupletsOf(next.activeTuplets) = {outer.tuplet} =>
                     next.actualDuration =
                         FracMul(NominalDuration(next.entry), outer.ratio)

\* C26: when a tuplet of n >= 1 notes starts at an emitted entry with no other
\* tuplet active, and that entry and the n entries emitted after it in the
\* traversal each have the tuplet's display duration as nominal duration and
\* start no tuplet, then the first n of them are scaled by the tuplet's ratio,
\* the one after them has its nominal duration as actual duration, and the
\* actual durations of the n sum to the tuplet's reference duration.
C26_SingleTuplet ==
    \A i \in Emitted :
        LET started == tupletDefs[emitted[i].entry]
            t == started[1]
            n == t.displayNumber
        IN  (/\ Len(started) = 1
             /\ Len(emitted[i].activeTuplets) = 1
             /\ n >= 1
             /\ PlainRun(i, i + n)
             /\ \A k \in i..(i + n) :
                   NominalDuration(emitted[k].entry) = Fraction(t.displayDuration, Whole))
            => /\ \A k \in i..(i + n - 1) :
                     emitted[k].actualDuration =
                         FracMul(NominalDuration(emitted[k].entry), calcRatio(t))
               /\ emitted[i + n].actualDuration = NominalDuration(emitted[i + n].entry)
               /\ emitted[i + n].activeTuplets = <<>>
               /\ ActualSum(i, i + n - 1) = calcReferenceDuration(t)

\* two quarters in the time of three eighths were emitted as 3/16 each and the
\* quarter after them as 1/4
C26_Witness ==
    /\ Len(emitted) >= 3
    /\ tupletDefs[emitted[1].entry] = <<T1>>
    /\ PlainRun(1, 3)
    /\ emitted[1].actualDuration = <<3, 16>>
    /\ emitted[2].actualDuration = <<3, 16>>
    /\ emitted[3].actualDuration = <<1, 4>>

\* a tuplet of one quarter in the time of an eighth was emitted as 1/8 and
\* the quarter after it as 1/4
C26_WitnessSingle ==
    /\ Len(emitted) >= 2
    /\ tupletDefs[emitted[1].entry] = <<Single>>
    /\ PlainRun(1, 2)
    /\ emitted[1].actualDuration = <<1, 8>>
    /\ emitted[2].actualDuration = <<1, 4>>


\* what the callbacks of layer l were handed: entry, elapsed and actual
\* duration
OfLayer(infos, l) == SelectSeq(infos, LAMBDA info : info.layerIndex = l)
Handed(infos) ==
    [i \in 1..Len(infos) |->
        <<infos[i].entry, infos[i].elapsedDuration, infos[i].actualDuration>>]

\* C27: a single-layer call that ended with every callback answered true has
\* emitted for its layer the sequence of (entry, elapsed duration, actual
\* duration) that the whole-cell call made before it on the same holder, with
\* every callback answered true, emitted for that layer; the first entry a
\* whole-cell call emits for a layer has as active tuplets only the ones that
\* start at it.
C27_LayersIndependent ==
    /\ (/\ previous.made
        /\ ~wholeCell
        /\ pc = "done"
        /\ layerIndex < MAX_LAYERS
        /\ \A i \in Emitted : emitted[i].continue)
       => Handed(emitted) = Handed(OfLayer(previous.emitted, layerIndex))
    /\ \A i \in 1..Len(previous.emitted) :
          (i = 1 \/ previous.emitted[i - 1].layerIndex # previous.emitted[i].layerIndex)
          => previous.emitted[i].activeTuplets = StartedAt(previous.emitted[i].entry)

\* the whole-cell call left layer 0 with a tuplet still active and went on to
\* emit layer 1; the single-layer call of layer 1 after it emitted the same
\* entries
C27_Witness ==
    /\ previous.made
    /\ ~wholeCell
    /\ pc = "done"
    /\ layerIndex = 1
    /\ emitted # <<>>
    /\ \A i \in Emitted : emitted[i].continue
    /\ LET before == OfLayer(previous.emitted, 0)
           last == before[Len(before)]
       IN  /\ before # <<>>
           /\ LeftAfter(last.activeTuplets, last.actualDuration) # <<>>
    /\ Len(OfLayer(previous.emitted, 1)) = Len(emitted)


\* C21: the buffer always has the length it had at first, and after an even
\* number of calls of cryptBuffer it holds the bytes it held at first.
C21_CryptInvolution ==
    /\ Len(buffer) = Len(original)
    /\ crypts % 2 = 0 => buffer = original

\* a buffer of three bytes was re-coded twice and holds its bytes again
C21_Witness ==
    /\ crypts = 2
    /\ original = <<69, 0, 255>>
    /\ buffer = original

\* after one call every byte of a buffer of three bytes differs from the
\* one it was
C21_WitnessEncoded ==
    /\ crypts = 1
    /\ Len(buffer) = 3
    /\ \A i \in 1..3 : buffer[i] # original[i]

\* the ids of a list of resolvers, in the order of the list
Ids(list) == [i \in 1..Len(list) |-> list[i].id]

\* C22: addResolver with a non-empty key that is already registered leaves the
\* stored resolvers as they were; with a non-empty key not yet registered, or
\* with an empty key, it appends exactly one resolver; so at most one stored
\* resolver exists per non-empty key.
C22_AddResolverOnce ==
    /\ called.op = "addResolver" =>
          IF called.key # "" /\ called.key \in called.registered
          THEN resolvers = called.stored
          ELSE /\ Len(resolvers) = Len(called.stored) + 1
               /\ SubSeq(resolvers, 1, Len(called.stored)) = called.stored
               /\ resolvers[Len(resolvers)].key = called.key
               /\ resolvers[Len(resolvers)].kind = called.kind
    /\ \A i, j \in 1..Len(resolvers) :
          resolvers[i].key # "" /\ resolvers[i].key = resolvers[j].key => i = j

\* a second resolver under key "a" was refused, after one without a key
C22_Witness ==
    /\ called.op = "addResolver"
    /\ called.key = "a"
    /\ Len(resolvers) = 2
    /\ resolvers[1].key = "a"
    /\ resolvers[2].key = ""
    /\ called.stored = resolvers

\* two resolvers without a key are both stored
C22_WitnessNoKey ==
    /\ called.op = "addResolver"
    /\ Len(resolvers) = 2
    /\ resolvers[1].key = ""
    /\ resolvers[2].key = ""

\* the StaffGroup resolver throws when it meets, in strict mode, a group whose
\* start or end staff the base list does not hold
SomeGroupUnfound(gs) ==
    \E g \in 1..Len(gs) :
        \/ getIndexForStaff(baseList, gs[g].startInst) = <<>>
        \/ getIndexForStaff(baseList, gs[g].endInst) = <<>>

FirstThrower(list, gs) ==
    IF Throws /\ SomeGroupUnfound(gs) /\ \E i \in 1..Len(list) : list[i].kind = "StaffGroup"
    THEN CHOOSE i \in 1..Len(list) :
             /\ list[i].kind = "StaffGroup"
             /\ \A j \in 1..(i - 1) : list[j].kind # "StaffGroup"
    ELSE 0

\* C23 as stated: resolveAll invokes every stored resolver exactly once, in
\* the order the resolvers were added, and afterwards both the resolver list
\* and the set of registered keys are empty.
C23_ResolveAllClears ==
    called.op = "resolveAll" =>
        /\ returned.value = Ids(called.stored)
        /\ resolvers = <<>>
        /\ registeredResolvers = {}

\* C23, amended: when no resolver throws, resolveAll invokes every stored
\* resolver exactly once, in the order the resolvers were added, and
\* afterwards both the resolver list and the set of registered keys are
\* empty; when a resolver throws, the resolvers before it and itself were
\* invoked once in that order, the ones after it were not invoked, the
\* exception leaves resolveAll and the list and the keys are as they were.
C23_ResolveAllUnlessThrown ==
    called.op = "resolveAll" =>
        LET thrower == FirstThrower(called.stored, called.groups)
        IN  IF thrower = 0
            THEN /\ returned.thrown = "none"
                 /\ returned.value = Ids(called.stored)
                 /\ resolvers = <<>>
                 /\ registeredResolvers = {}
            ELSE /\ returned.thrown = "integrity_error"
                 /\ returned.value = SubSeq(Ids(called.stored), 1, thrower)
                 /\ resolvers = called.stored
                 /\ registeredResolvers = called.registered

\* two resolvers, one under a key, were invoked in order and dropped
C23_Witness ==
    /\ called.op = "resolveAll"
    /\ Len(called.stored) = 2
    /\ called.registered # {}
    /\ returned.thrown = "none"
    /\ returned.value = Ids(called.stored)
    /\ resolvers = <<>>
    /\ registeredResolvers = {}

\* the StaffGroup resolver threw with a resolver stored after it
C23_WitnessThrown ==
    /\ called.op = "resolveAll"
    /\ Len(called.stored) = 2
    /\ called.stored[1].kind = "StaffGroup"
    /\ returned.thrown = "integrity_error"
    /\ Len(returned.value) = 1
    /\ Len(resolvers) = 2

\* a key is stored again after resolveAll dropped it
C23_WitnessAgain ==
    /\ called.op = "addResolver"
    /\ called.key = "a"
    /\ called.stored = <<>>
    /\ Len(resolvers) = 1
    /\ resolvers[1].id > 1
    /\ resolvers[1].key = "a"

\* C28: getStaffAtIndex returns none for every index that is not a valid
\* position of the given array (index >= array size) and never reads an
\* element outside the array.
C28_NoneOutOfRange ==
    called.op = "getStaffAtIndex" =>
        /\ returned.read \in {-1} \cup (0..(Len(baseList) - 1))
        /\ called.index >= Len(baseList) =>
               returned.thrown = "none" /\ returned.value = 0

\* the staves a group holds once the resolver is through with it
StavesBetween(group) ==
    LET s == getIndexForStaff(baseList, group.startInst)
        e == getIndexForStaff(baseList, group.endInst)
    IN  IF s = <<>> \/ e = <<>> THEN group.staves
        ELSE group.staves \cup { baseList[x + 1] : x \in s[1]..e[1] }

Unfound(group) ==
    \/ getIndexForStaff(baseList, group.startInst) = <<>>
    \/ getIndexForStaff(baseList, group.endInst) = <<>>

\* the groups that one run of the resolver reports, in order: all the unfound
\* ones, or the first of them when the report throws
ReportsOfRun(gs) ==
    LET all == SelectSeq([g \in 1..Len(gs) |-> g], LAMBDA g : Unfound(gs[g]))
    IN  IF Throws /\ all # <<>> THEN <<all[1]>> ELSE all

\* C29: the StaffGroup resolver, for each staff group whose start staff and
\* end staff are both found in the base list at indices s and e, inserts into
\* the group's staves exactly the staff ids at list positions s..e inclusive
\* (none when s > e); for a group whose start or end staff is not found it
\* reports a consistency violation, leaves that group's staves unchanged and,
\* in default mode, still processes the remaining groups (in strict mode the
\* report is thrown and the groups after it are left alone).
C29_StaffGroupResolver ==
    called.op = "resolveAll" /\ (\E i \in 1..Len(called.stored) :
                                    called.stored[i].kind = "StaffGroup") =>
        LET before == called.groups
            reported == ReportsOfRun(before)
            reached(g) == ~Throws \/ reported = <<>> \/ g <= reported[1]
        IN  /\ Len(groups) = Len(before)
            /\ \A g \in 1..Len(before) :
                  /\ groups[g].startInst = before[g].startInst
                  /\ groups[g].endInst = before[g].endInst
                  /\ groups[g].staves =
                        IF reached(g) THEN StavesBetween(before[g])
                        ELSE before[g].staves
                  /\ Unfound(before[g]) => groups[g].staves = before[g].staves
                  /\ Unfound(before[g]) /\ reached(g) =>
                        \E r \in 1..Len(returned.reports) : returned.reports[r] = g
            /\ \A r \in 1..Len(returned.reports) : Unfound(before[returned.reports[r]])
            /\ ~Throws => returned.thrown = "none"

\* a group from the second to the third listed staff got these two staves
C29_Witness ==
    /\ called.op = "resolveAll"
    /\ baseList = <<1, 2, 3>>
    /\ Len(called.groups) = 1
    /\ called.groups[1].startInst = 2
    /\ called.groups[1].endInst = 3
    /\ called.groups[1].staves = {}
    /\ groups[1].staves = {2, 3}

\* a group that ends above its start got no staff
C29_WitnessBackwards ==
    /\ called.op = "resolveAll"
    /\ baseList = <<1, 2, 3>>
    /\ Len(called.groups) = 1
    /\ called.groups[1].startInst = 3
    /\ called.groups[1].endInst = 1
    /\ \E i \in 1..Len(called.stored) : called.stored[i].kind = "StaffGroup"
    /\ groups[1].staves = {}
    /\ returned.reports = <<>>

\* in default mode the group after an unfound one got its staves
C29_WitnessAfterUnfound ==
    /\ called.op = "resolveAll"
    /\ ~strict
    /\ baseList = <<1, 2, 3>>
    /\ Len(groups) = 2
    /\ groups[1].startInst = NoSuchStaff
    /\ groups[1].staves = {}
    /\ groups[2].staves = {1, 2, 3}
    /\ returned.reports = <<1>>
    /\ returned.thrown = "none"

\* every clefDef element carries its position as index attribute
IndicesMatch == \A x \in 1..Len(clefXml) : clefXml[x].index = x - 1

\* C30: populating a clef definition whose XML specifies useOwnFont but
\* contains no font fails with an invalid-argument error ('Use own font was
\* specified, but no font was found in the xml.').
C30_OwnFontNeedsFont ==
    /\ called.op = "populate"
    /\ IndicesMatch
    /\ \E x \in 1..Len(clefXml) : clefXml[x].useOwnFont /\ ~clefXml[x].font
    => /\ returned.thrown = "invalid_argument"
       /\ returned.value = "Use own font was specified, but no font was found in the xml."

====
